---- MODULE Spec2Model ----
(***************************************************************************)
(* A model of the evaluator runtime of elvish: frames (evalCtx / Frame),   *)
(* ports, namespaces, the module cache of `use`, and the run-time parts of *)
(* the special forms of eval/builtin_special.go.                           *)
(*                                                                         *)
(* Spec       forks, `use` and the module cache                           *)
(* SpecNs     forks, fn, del and `use` on the namespaces                   *)
(* SpecPorts  forks, growPorts, ClosePorts and `use` on the ports          *)
(* SpecCyc    modules whose bodies `use` each other, run to completion     *)
(* SpecConc   two tasks executing `use` at the same time                   *)
(* SpecTry    one execution of a try form                                  *)
(* SpecWhile  one execution of a while form                                *)
(* SpecAndOr  one execution of an and / or form                            *)
(***************************************************************************)
EXTENDS Integers, Sequences, FiniteSets, TLC

\* ------------------------------------------------------------------ bounds
MaxFrames == 4      \* frames alive at one time
MaxNs == 9          \* namespaces ever allocated
MaxBody == 2        \* statements of a module body (SpecCyc)
MaxPorts == 4       \* longest port list growPorts is asked for
MaxCalls == 6       \* calls one execution of a loop makes
MaxArgs == 2        \* argument compounds of an and / or form
MaxVals == 2        \* values one argument compound produces
MaxElems == 2       \* elements of the collection a for loop iterates
MaxConds == 3       \* conditions of an if / elif chain
MaxNest == 3        \* forms around the body that raises (SpecFlow)
MaxSends == 3       \* values a chunk sends on the top-level output (SpecPrint)
MaxStmts == 3       \* forms of a chunk of declarations and del forms (SpecDel)

\* ------------------------------------------------------------- constants
NoExc == "none"
NoPath == <<>>
NilPort == 0

\* Suffixes that mark the kind of a name in a namespace.
FnSuffix == "~"
NsSuffix == ":"

\* The module specifiers `use` is executed with.  A specifier is a sequence
\* of '/'-separated segments, a segment a sequence of ':'-separated parts:
\*   a   x:a   ./a   ../a
UseSpecs ==
  { << <<"a">> >>, << <<"x", "a">> >>, << <<".">>, <<"a">> >>, << <<"..">>, <<"a">> >> }

FnNames == {<<"f">>}      \* a name is a sequence of parts, as a segment is

\* Exceptions a module body raises by itself.
BodyExcs == {"e1", "e2"}

\* ---------------------------------------------------------------- helpers
Last(s) == s[Len(s)]
Front(s) == SubSeq(s, 1, Len(s) - 1)

RECURSIVE Flatten(_)
Flatten(ss) == IF ss = <<>> THEN <<>> ELSE Head(ss) \o Flatten(Tail(ss))

\* spec[strings.LastIndexByte(spec, '/')+1:]
ModName(spec) == Last(spec)

\* strings.Replace(spec, ":", "/", -1): every part becomes a path segment.
ModPath(spec) == Flatten(spec)

\* strings.HasPrefix(p, "./") and strings.HasPrefix(p, "../")
HasDotPrefix(p) == Len(p) >= 2 /\ p[1] = "."
HasDotDotPrefix(p) == Len(p) >= 2 /\ p[1] = ".."

\* filepath.Clean of a relative path given as its segments.
RECURSIVE CleanInto(_, _)
CleanInto(out, p) ==
  IF p = <<>> THEN out
  ELSE LET s == Head(p) IN
       IF s = "." THEN CleanInto(out, Tail(p))
       ELSE IF s = ".." /\ out # <<>> /\ Last(out) # ".."
            THEN CleanInto(Front(out), Tail(p))
            ELSE CleanInto(Append(out, s), Tail(p))

Clean(p) == LET c == CleanInto(<<>>, p) IN IF c = <<>> THEN <<".">> ELSE c

\* filepath.Dir: all but the last segment, cleaned.
Dir(p) == Clean(Front(p))

\* A use that resolves a relative path from any source.
ResolveUseMut(typ, srcName, modpath) ==
  LET resolved == Clean(IF HasDotPrefix(modpath) \/ HasDotDotPrefix(modpath)
                        THEN Dir(srcName) \o modpath ELSE modpath) IN
  IF HasDotDotPrefix(resolved)
  THEN [err |-> "Module outside library directory", path |-> <<>>]
  ELSE [err |-> NoExc, path |-> resolved]

\* use: the path the module is cached under, or the error thrown before any
\* module is looked up.
ResolveUse(typ, srcName, modpath) ==
  IF HasDotPrefix(modpath) \/ HasDotDotPrefix(modpath)
  THEN IF typ # "module"
       THEN [err |-> "Relative use not from module", path |-> <<>>]
       ELSE LET resolved == Clean(Dir(srcName) \o modpath) IN
            IF HasDotDotPrefix(resolved)
            THEN [err |-> "Module outside library directory", path |-> <<>>]
            ELSE [err |-> NoExc, path |-> resolved]
  ELSE LET resolved == Clean(modpath) IN
       IF HasDotDotPrefix(resolved)
       THEN [err |-> "Module outside library directory", path |-> <<>>]
       ELSE [err |-> NoExc, path |-> resolved]

\* A Go map: a function whose domain is the set of keys present.
MapSet(m, k, v) == [x \in DOMAIN m \cup {k} |-> IF x = k THEN v ELSE m[x]]
MapDel(m, k) == [x \in DOMAIN m \ {k} |-> m[x]]
EmptyMap == [x \in {} |-> 0]

\* The variables a namespace holds: a function (a closure, made in frame by)
\* or a module namespace (ns).
FnVal(by) == [kind |-> "fn", ns |-> 0, by |-> by]
NsVal(n) == [kind |-> "ns", ns |-> n, by |-> 0]

\* ------------------------------------------------------------------ state
VARIABLES
  frames,    \* the frames alive, by id: kind, parent, local, up, ports, ...
  ports,     \* the Port objects, by id: f, ch, closeF, closeCh, by (creator)
  ns,        \* the namespaces, by id: a map from name to variable
  modules,   \* Evaler.modules: resolved path -> namespace id
  stack,     \* the loadModule calls whose module body is executing
  exc,       \* the exception being thrown in the active frame, or NoExc
  libDir,    \* Evaler.libDir
  closedF,   \* how often each file was closed
  closedCh,  \* how often each channel was closed
  nsOf,      \* for each namespace, the module path it was created for
  panicked   \* a Go run-time panic ended the process

evalVars == <<frames, ports, ns, modules, stack, exc, libDir, closedF, closedCh,
              nsOf, panicked>>

\* A chunk and module sources whose statements are `use` forms (SpecCyc).
VARIABLES
  prog,      \* the statements of the chunk ("top") and of each module body
  pcs,       \* for the chunk and each module body running, its next statement
  execs,     \* how often each module body was started
  fails      \* how often each module body raised

cycVars == <<prog, pcs, execs, fails>>

\* One execution of the operation of a special form (SpecTry, SpecWhile,
\* SpecAndOr).
VARIABLES
  form,      \* the form as compiled: which clauses and arguments it has
  fpc,       \* where the operation is
  ferr,      \* its local variable err (try), its lastValue (and, or)
  flog,      \* the calls and evaluations it has made, in order
  fout,      \* the values it has sent on the frame's output channel
  fres       \* how it ended: "ok", or the exception it threw

formVars == <<form, fpc, ferr, flog, fout, fres>>

\* Two pipeline stages that execute `use` as two tasks (SpecConc).
VARIABLES
  task,      \* each task's place in use / loadModule and what it holds
  made,      \* the namespaces created, each with the path it was made for
  ran        \* how often each module body was executed

concVars == <<task, made, ran>>

notEval == <<cycVars, formVars, concVars>>

vars == <<evalVars, cycVars, formVars, concVars>>

Files == {"stdin", "stdout", "stderr"}
Chans == {"ch"}
NoChan == "nil"

\* Port.Fork / the loop body of evalCtx.copy: same file and channel, flags unset.
ForkPort(p, by) == [f |-> p.f, ch |-> p.ch, closeF |-> FALSE, closeCh |-> FALSE, by |-> by]

\* newTopEvalCtx: local is the global namespace (1), up a fresh one (2); the
\* stdout port carries the output channel and closes it.
TopFrame ==
  [kind |-> "top", parent |-> 0, local |-> 1, up |-> 2, ports |-> <<1, 2, 3>>,
   typ |-> "top", name |-> <<>>, depth |-> 0, closed |-> FALSE]

TopPorts ==
  << [f |-> "stdin", ch |-> NoChan, closeF |-> FALSE, closeCh |-> FALSE, by |-> 1],
     [f |-> "stdout", ch |-> "ch", closeF |-> FALSE, closeCh |-> TRUE, by |-> 1],
     [f |-> "stderr", ch |-> NoChan, closeF |-> FALSE, closeCh |-> FALSE, by |-> 1] >>

InitEval ==
  /\ frames = <<TopFrame>>
  /\ ports = TopPorts
  /\ ns = <<EmptyMap, EmptyMap>>
  /\ modules = EmptyMap
  /\ stack = <<>>
  /\ exc = NoExc
  /\ libDir \in {"", "lib"}
  /\ closedF = [x \in Files |-> 0]
  /\ closedCh = [x \in Chans |-> 0]
  /\ nsOf = <<NoPath, NoPath>>
  /\ panicked = FALSE

\* No chunk of `use` statements is being run.
CycIdle == prog = <<>> /\ pcs = <<>> /\ execs = <<>> /\ fails = <<>>

\* No special form is being executed, no task is running.
FormIdle ==
  /\ form = <<>> /\ fpc = "idle" /\ ferr = NoExc /\ flog = <<>> /\ fout = <<>>
  /\ fres = "idle"
ConcIdle == task = <<>> /\ made = <<>> /\ ran = <<>>

Init == InitEval /\ CycIdle /\ FormIdle /\ ConcIdle

\* An Evaler that was given a library directory.
InitLib == Init /\ libDir = "lib"

\* The frames whose code can run: those of the innermost module body being
\* executed (of the top-level chunk when no module is loading), while no
\* exception is unwinding.
Running == ~panicked /\ exc = NoExc
Active(f) == f \in 1..Len(frames) /\ frames[f].depth = Len(stack)

\* ------------------------------------------------------- frames and ports
\* The frame evalCtx.copy returns for frame f (ec): the Evaler, the source
\* and the local and up namespaces of ec, and the new ports.
ForkFrameMut(ec, f, newPorts) ==
  [kind |-> "fork", parent |-> f, local |-> ec.up, up |-> ec.up,
   ports |-> newPorts, typ |-> ec.typ, name |-> ec.name, depth |-> ec.depth,
   closed |-> FALSE]

ForkFrame(ec, f, newPorts) ==
  [kind |-> "fork", parent |-> f, local |-> ec.local, up |-> ec.up,
   ports |-> newPorts, typ |-> ec.typ, name |-> ec.name, depth |-> ec.depth,
   closed |-> FALSE]

\* evalCtx.copy: a new frame with the same local and up namespaces and a
\* fork of every port.  A nil entry of the port list (left by growPorts) is
\* dereferenced: the Go run time panics.
CopyFrame(f) ==
  /\ Running /\ Active(f)
  /\ Len(frames) < MaxFrames
  /\ LET ec == frames[f]
         id == Len(frames) + 1
         n == Len(ec.ports)
     IN IF \E i \in 1..n : ec.ports[i] = NilPort
        THEN /\ panicked' = TRUE
             /\ UNCHANGED <<frames, ports>>
        ELSE /\ ports' = ports \o [i \in 1..n |-> ForkPort(ports[ec.ports[i]], id)]
             /\ frames' = Append(frames,
                  ForkFrame(ec, f, [i \in 1..n |-> Len(ports) + i]))
             /\ UNCHANGED panicked
  /\ UNCHANGED <<ns, modules, stack, exc, libDir, closedF, closedCh, nsOf>>

\* evalCtx.growPorts: the port list gets at least n entries, the new ones nil.
GrowPorts(f, n) ==
  /\ Running /\ Active(f)
  /\ LET ps == frames[f].ports IN
     frames' = [frames EXCEPT ![f].ports =
                  IF Len(ps) >= n THEN ps
                  ELSE [i \in 1..n |-> IF i <= Len(ps) THEN ps[i] ELSE NilPort]]
  /\ UNCHANGED <<ports, ns, modules, stack, exc, libDir, closedF, closedCh, nsOf,
                 panicked>>

\* How many ports of the list ps Port.Close closes the file x / the channel x for.
FileCloses(ps, x) ==
  Cardinality({i \in DOMAIN ps : ps[i] # NilPort /\ ports[ps[i]].closeF /\ ports[ps[i]].f = x})
ChanCloses(ps, x) ==
  Cardinality({i \in DOMAIN ps : ps[i] # NilPort /\ ports[ps[i]].closeCh /\ ports[ps[i]].ch = x})

\* ClosePorts on the port list of frame f: Port.Close on every entry, which
\* closes what the port's flags say.  Closing a closed channel panics.
ClosePorts(f) ==
  /\ Running /\ Active(f)
  /\ ~frames[f].closed
  /\ LET ps == frames[f].ports IN
     /\ closedF' = [x \in Files |-> closedF[x] + FileCloses(ps, x)]
     /\ closedCh' = [x \in Chans |-> closedCh[x] + ChanCloses(ps, x)]
     /\ panicked' = \E x \in Chans : closedCh[x] + ChanCloses(ps, x) > 1
  /\ frames' = [frames EXCEPT ![f].closed = TRUE]
  /\ UNCHANGED <<ports, ns, modules, stack, exc, libDir, nsOf>>

\* ----------------------------------------------------------------- fn, del
\* The operation compileFn returns: binds name~ in the frame's local
\* namespace, first to a placeholder and then to the closure.
FnOp(f, name) ==
  /\ Running /\ Active(f)
  /\ ns' = [ns EXCEPT ![frames[f].local] = MapSet(@, <<name, FnSuffix>>, FnVal(f))]
  /\ UNCHANGED <<frames, ports, modules, stack, exc, libDir, closedF, closedCh, nsOf,
                 panicked>>

\* newDelLocalVariableOp: delete(f.local, name).
DelOp(f, key) ==
  /\ Running /\ Active(f)
  /\ key \in DOMAIN ns[frames[f].local]
  /\ ns' = [ns EXCEPT ![frames[f].local] = MapDel(@, key)]
  /\ UNCHANGED <<frames, ports, modules, stack, exc, libDir, closedF, closedCh, nsOf,
                 panicked>>

\* ---------------------------------------------------------------------- use
\* What loadModule finds when it loads the source of a module that is not
\* cached: the file under libDir, the table of bundled modules, the parser
\* and the compiler.
LoadEnvs ==
  { e \in [file : {"absent", "valid", "unreadable", "badutf8"}, bundled : BOOLEAN,
           parses : BOOLEAN, compiles : BOOLEAN] :
      \* what a step of loadModule does not read is left at one value
      /\ e.file # "absent" => ~e.bundled
      /\ (e.file \in {"unreadable", "badutf8"} \/ (e.file = "absent" /\ ~e.bundled))
           => e.parses
      /\ ~e.parses => e.compiles }

\* loadModule up to newEc.Compile: the error thrown, or NoExc.
LoadSource(dir, env) ==
  IF dir = "" THEN "Evaler does not have a lib directory"
  ELSE IF env.file = "absent" /\ ~env.bundled THEN "cannot load: does not exist"
  ELSE IF env.file = "unreadable" THEN "read error"
  ELSE IF env.file = "badutf8" THEN "source is not valid UTF-8"
  ELSE IF ~env.parses THEN "parse error"
  ELSE IF ~env.compiles THEN "compile error"
  ELSE NoExc

UseKey(spec) == <<ModName(spec), NsSuffix>>
Resolved(f, spec) == ResolveUse(frames[f].typ, frames[f].name, ModPath(spec))

\* use, when the module path is refused before loadModule is called.
UseRefused(f, spec) ==
  /\ Running /\ Active(f)
  /\ Resolved(f, spec).err # NoExc
  /\ exc' = Resolved(f, spec).err
  /\ UNCHANGED <<frames, ports, ns, modules, stack, libDir, closedF, closedCh, nsOf,
                 panicked>>

\* use of a module loadModule finds in Evaler.modules: the cached namespace
\* is bound to modname: in the frame's local namespace.
UseCached(f, spec) ==
  /\ Running /\ Active(f)
  /\ Resolved(f, spec).err = NoExc
  /\ LET path == Resolved(f, spec).path IN
     /\ path \in DOMAIN modules
     /\ ns' = [ns EXCEPT ![frames[f].local] = MapSet(@, UseKey(spec), NsVal(modules[path]))]
  /\ UNCHANGED <<frames, ports, modules, stack, exc, libDir, closedF, closedCh, nsOf,
                 panicked>>

\* A loadModule that caches a namespace before it has the compiled source.
UseLoadFailsMut(f, spec, env) ==
  /\ Running /\ Active(f)
  /\ Resolved(f, spec).err = NoExc
  /\ LET path == Resolved(f, spec).path IN
     /\ path \notin DOMAIN modules
     /\ LoadSource(libDir, env) # NoExc
     /\ exc' = LoadSource(libDir, env)
     /\ modules' = MapSet(modules, path, frames[f].local)
  /\ UNCHANGED <<frames, ports, ns, stack, libDir, closedF, closedCh, nsOf, panicked>>

\* use of a module that is not cached and whose source cannot be loaded,
\* parsed or compiled: loadModule throws before it creates anything.
UseLoadFails(f, spec, env) ==
  /\ Running /\ Active(f)
  /\ Resolved(f, spec).err = NoExc
  /\ LET path == Resolved(f, spec).path IN
     /\ path \notin DOMAIN modules
     /\ LoadSource(libDir, env) # NoExc
     /\ exc' = LoadSource(libDir, env)
  /\ UNCHANGED <<frames, ports, ns, modules, stack, libDir, closedF, closedCh, nsOf,
                 panicked>>

\* A module body evaluated in the scope of the importing frame.
ModuleFrameMut(ec, f, path, modGlobal, id) ==
  [kind |-> "module", parent |-> f, local |-> ec.local, up |-> ec.up,
   ports |-> ec.ports,
   typ |-> "module", name |-> path, depth |-> ec.depth + 1, closed |-> FALSE]

\* The frame loadModule builds for the module body: a fresh local namespace
\* (modGlobal), a fresh up namespace, and the port list of the importing frame.
ModuleFrame(ec, f, path, modGlobal, id) ==
  [kind |-> "module", parent |-> f, local |-> modGlobal, up |-> modGlobal + 1,
   ports |-> ec.ports,
   typ |-> "module", name |-> path, depth |-> ec.depth + 1, closed |-> FALSE]

\* Evaler.modules once loadModule has compiled the module, while its body runs.
ModulesWhileLoadingMut(m, path, modGlobal) == m

ModulesWhileLoading(m, path, modGlobal) == MapSet(m, path, modGlobal)

\* Evaler.modules after the module body has raised.
ModulesAfterFailureMut(m, path) == m

ModulesAfterFailure(m, path) == MapDel(m, path)

\* use of a module that is not cached and compiles: loadModule creates the
\* namespace and the frame, caches the namespace and starts the module body.
UseLoadBegin(f, spec, env) ==
  /\ Running /\ Active(f)
  /\ Resolved(f, spec).err = NoExc
  /\ Len(frames) < MaxFrames
  /\ Len(ns) + 2 <= MaxNs
  /\ LET path == Resolved(f, spec).path
         modGlobal == Len(ns) + 1
         id == Len(frames) + 1
     IN
     /\ path \notin DOMAIN modules
     /\ LoadSource(libDir, env) = NoExc
     /\ ns' = ns \o <<EmptyMap, EmptyMap>>
     /\ nsOf' = nsOf \o <<path, NoPath>>
     /\ frames' = Append(frames, ModuleFrame(frames[f], f, path, modGlobal, id))
     /\ modules' = ModulesWhileLoading(modules, path, modGlobal)
     /\ stack' = Append(stack, [ec |-> f, newEc |-> id, name |-> path,
                                key |-> UseKey(spec), ns |-> modGlobal,
                                nports |-> Len(ports)])
  /\ UNCHANGED <<ports, exc, libDir, closedF, closedCh, panicked>>

\* The module body ends (newEc.PEval returns): normally, and loadModule
\* returns the namespace, which use binds; or with an exception, and
\* loadModule unloads the namespace and throws the exception again.  The
\* frames of the module body are no longer used.
UseLoadEnd(res) ==
  /\ ~panicked
  /\ stack # <<>>
  /\ IF exc = NoExc THEN res \in {NoExc} \cup BodyExcs ELSE res = exc
  /\ LET top == Last(stack) IN
     /\ stack' = Front(stack)
     /\ frames' = SubSeq(frames, 1, top.newEc - 1)
     /\ ports' = SubSeq(ports, 1, top.nports)
     /\ exc' = res
     /\ IF res = NoExc
        THEN /\ ns' = [ns EXCEPT ![frames[top.ec].local] = MapSet(@, top.key, NsVal(top.ns))]
             /\ UNCHANGED modules
        ELSE /\ modules' = ModulesAfterFailure(modules, top.name)
             /\ UNCHANGED ns
  /\ UNCHANGED <<libDir, closedF, closedCh, nsOf, panicked>>

\* The exception a `use` threw is caught by a `try` around it.
Catch ==
  /\ ~panicked
  /\ exc # NoExc
  /\ exc' = NoExc
  /\ UNCHANGED <<frames, ports, ns, modules, stack, libDir, closedF, closedCh, nsOf,
                 panicked>>

AllKeys(f) == DOMAIN ns[frames[f].local]

\* A module source that loads, parses and compiles.
GoodEnv == [file |-> "valid", bundled |-> FALSE, parses |-> TRUE, compiles |-> TRUE]
SpecA == << <<"a">> >>

\* `use` and the module cache: any frame of the running body forks or
\* executes `use`; a module body ends normally or raises; a `try` catches.
Next ==
  \/ (\E f \in 1..Len(frames) : CopyFrame(f)) /\ UNCHANGED notEval
  \/ (\E f \in 1..Len(frames), spec \in UseSpecs : UseRefused(f, spec)) /\ UNCHANGED notEval
  \/ (\E f \in 1..Len(frames), spec \in UseSpecs : UseCached(f, spec)) /\ UNCHANGED notEval
  \/ (\E f \in 1..Len(frames), spec \in UseSpecs, env \in LoadEnvs : UseLoadFails(f, spec, env)) /\ UNCHANGED notEval
  \/ (\E f \in 1..Len(frames), spec \in UseSpecs, env \in LoadEnvs : UseLoadBegin(f, spec, env)) /\ UNCHANGED notEval
  \/ (\E res \in {NoExc} \cup BodyExcs : UseLoadEnd(res)) /\ UNCHANGED notEval
  \/ (Catch) /\ UNCHANGED notEval

Spec == Init /\ [][Next]_vars

\* The local namespaces: any frame of the running body forks, or executes
\* the operation of a `fn`, a `del` or a `use`.
NextNs ==
  \/ (\E f \in 1..Len(frames) : CopyFrame(f)) /\ UNCHANGED notEval
  \/ (\E f \in 1..Len(frames), name \in FnNames : FnOp(f, name)) /\ UNCHANGED notEval
  \/ (\E f \in 1..Len(frames) : \E key \in AllKeys(f) : DelOp(f, key)) /\ UNCHANGED notEval
  \/ (\E f \in 1..Len(frames) : UseCached(f, SpecA)) /\ UNCHANGED notEval
  \/ (\E f \in 1..Len(frames) : UseLoadBegin(f, SpecA, GoodEnv)) /\ UNCHANGED notEval
  \/ (\E res \in {NoExc, "e1"} : UseLoadEnd(res)) /\ UNCHANGED notEval
  \/ (Catch) /\ UNCHANGED notEval

SpecNs == InitLib /\ [][NextNs]_vars

\* The port lists: any frame of the running body forks, has its port list
\* grown or closed, or loads a module.
NextPorts ==
  \/ (\E f \in 1..Len(frames) : CopyFrame(f)) /\ UNCHANGED notEval
  \/ (\E f \in 1..Len(frames), n \in 1..MaxPorts : GrowPorts(f, n)) /\ UNCHANGED notEval
  \/ (\E f \in 1..Len(frames) : ClosePorts(f)) /\ UNCHANGED notEval
  \/ (\E f \in 1..Len(frames) : UseLoadBegin(f, SpecA, GoodEnv)) /\ UNCHANGED notEval
  \/ (\E res \in {NoExc, "e1"} : UseLoadEnd(res)) /\ UNCHANGED notEval
  \/ (Catch) /\ UNCHANGED notEval

SpecPorts == InitLib /\ [][NextPorts]_vars

\* ------------------------------------------------------- cyclic module loads
\* The chunk and the module sources are fixed: the chunk is one `use`, a
\* module body is a sequence of statements
\*     use spec         try { use spec } except { }         fail e1
\* and modules a and x/a use each other and themselves.
CycSpecs == {SpecA, << <<"x", "a">> >>}
CycPaths == {ModPath(sp) : sp \in CycSpecs}
CycStmts ==
  [kind : {"use", "try"}, spec : CycSpecs] \cup [kind : {"fail"}, spec : {SpecA}]
Bodies == UNION {[1..n -> CycStmts] : n \in 0..MaxBody}

InitCyc ==
  /\ InitEval /\ libDir = "lib"
  /\ \E top \in [kind : {"use", "try"}, spec : CycSpecs], a \in Bodies, xa \in Bodies :
       prog = [src \in {<<"top">>} \cup CycPaths |->
                 IF src = <<"top">> THEN <<top>>
                 ELSE IF src = <<"a">> THEN a ELSE xa]
  /\ pcs = <<1>>
  /\ execs = [m \in CycPaths |-> 0]
  /\ fails = [m \in CycPaths |-> 0]
  /\ FormIdle /\ ConcIdle

\* The code that is running: the chunk, or the innermost module body.
CurSrc == IF stack = <<>> THEN <<"top">> ELSE Last(stack).name
CurFrame == IF stack = <<>> THEN 1 ELSE Last(stack).newEc
CurPc == Last(pcs)
AtStmt == CurPc <= Len(prog[CurSrc])
CurStmt == prog[CurSrc][CurPc]
Advance(ps) == [ps EXCEPT ![Len(ps)] = @ + 1]

\* The next statement is a `use` of a cached module (perhaps one that is
\* still loading): it binds the cached namespace.
CycUseCached ==
  /\ Running /\ AtStmt /\ CurStmt.kind \in {"use", "try"}
  /\ UseCached(CurFrame, CurStmt.spec)
  /\ pcs' = Advance(pcs)
  /\ UNCHANGED <<prog, execs, fails>>

\* The next statement is a `use` of a module that is not cached: loadModule
\* starts its body.
CycUseLoad ==
  /\ Running /\ AtStmt /\ CurStmt.kind \in {"use", "try"}
  /\ UseLoadBegin(CurFrame, CurStmt.spec, GoodEnv)
  /\ pcs' = Append(pcs, 1)
  /\ execs' = [execs EXCEPT ![ModPath(CurStmt.spec)] = @ + 1]
  /\ UNCHANGED <<prog, fails>>

\* The module body has run its last statement: loadModule returns and the
\* `use` that loaded the module is done.
CycBodyEnds ==
  /\ Running /\ ~AtStmt /\ stack # <<>>
  /\ UseLoadEnd(NoExc)
  /\ pcs' = Advance(Front(pcs))
  /\ UNCHANGED <<prog, execs, fails>>

\* The next statement of the module body is `fail`: the body raises.
CycBodyFails ==
  /\ Running /\ AtStmt /\ CurStmt.kind = "fail" /\ stack # <<>>
  /\ UseLoadEnd("e1")
  /\ pcs' = Front(pcs)
  /\ fails' = [fails EXCEPT ![CurSrc] = @ + 1]
  /\ UNCHANGED <<prog, execs>>

\* The `use` threw inside a `try`: the exception is caught.
CycCaught ==
  /\ exc # NoExc /\ CurStmt.kind = "try"
  /\ Catch
  /\ pcs' = Advance(pcs)
  /\ UNCHANGED <<prog, execs, fails>>

\* The `use` threw outside any `try` of the module body: the body raises.
CycPropagates ==
  /\ exc # NoExc /\ CurStmt.kind = "use" /\ stack # <<>>
  /\ UseLoadEnd(exc)
  /\ pcs' = Front(pcs)
  /\ fails' = [fails EXCEPT ![CurSrc] = @ + 1]
  /\ UNCHANGED <<prog, execs>>

NextCyc ==
  \/ CycUseCached /\ UNCHANGED <<formVars, concVars>>
  \/ CycUseLoad /\ UNCHANGED <<formVars, concVars>>
  \/ CycBodyEnds /\ UNCHANGED <<formVars, concVars>>
  \/ CycBodyFails /\ UNCHANGED <<formVars, concVars>>
  \/ CycCaught /\ UNCHANGED <<formVars, concVars>>
  \/ CycPropagates /\ UNCHANGED <<formVars, concVars>>

\* The evaluation is sequential code: it takes its next step whenever it has one.
SpecCyc == InitCyc /\ [][NextCyc]_vars /\ WF_vars(NextCyc)

\* The top-level `use` has completed: normally, or by throwing.
CycDone ==
  /\ stack = <<>>
  /\ \/ exc = NoExc /\ ~AtStmt
     \/ exc # NoExc /\ CurStmt.kind = "use"

\* ------------------------------------------------- claims on frames and use
FrameIds == 1..Len(frames)
IsFork(c) == frames[c].kind = "fork"
ParentOf(c) == frames[frames[c].parent]

\* C1 (as claimed): a port in the port list of a frame that did not create
\* it has both close flags unset, so that closing the port lists of all
\* frames closes no file and no channel twice.
PortOwnership ==
  /\ \A f \in FrameIds : \A i \in 1..Len(frames[f].ports) :
       LET p == frames[f].ports[i] IN
       (p # NilPort /\ ports[p].by # f) => (~ports[p].closeF /\ ~ports[p].closeCh)
  /\ \A x \in Files : closedF[x] <= 1
  /\ \A x \in Chans : closedCh[x] <= 1

\* C2 (as claimed): a step in which a forked frame c adds, replaces or
\* removes a binding of its local namespace (fn, del, use) leaves the local
\* namespace of the frame it was forked from as it was.
LocalOpOf(c) ==
  \/ \E name \in FnNames : FnOp(c, name)
  \/ \E key \in AllKeys(c) : DelOp(c, key)
  \/ UseCached(c, SpecA)
  \/ (stack # <<>> /\ Last(stack).ec = c /\ UseLoadEnd(NoExc))

ForkIsolation ==
  [][\A c \in FrameIds :
       (IsFork(c) /\ LocalOpOf(c)) => ns'[ParentOf(c).local] = ns[ParentOf(c).local]]_vars

\* C2 (amended): a fork has the very local and up namespaces of the frame it
\* was forked from, so whatever fn, del or use change in the local namespace
\* of the fork they change in the local namespace of its parent.
ForkSharesLocal ==
  \A c \in FrameIds :
    IsFork(c) => /\ frames[c].local = ParentOf(c).local
                 /\ frames[c].up = ParentOf(c).up

\* C2 witness: the local namespace of a frame holds a function that `fn`
\* bound in a fork of that frame.
ForkBoundInParent ==
  \E c \in FrameIds :
    /\ IsFork(c)
    /\ \E key \in DOMAIN ns[ParentOf(c).local] :
         ns[ParentOf(c).local][key] = FnVal(c)

\* The namespace l is that of a module the cache holds.
Cached(l) == nsOf[l] \in DOMAIN modules /\ modules[nsOf[l]] = l

\* C3 (as claimed): two `use` executions of the same resolved path that
\* completed in two distinct modules bound the same namespace instance:
\* whenever the namespaces of two cached modules of different paths hold
\* module namespaces made for one path, these are one namespace.
ModuleMemoization ==
  \A l1, l2 \in 1..Len(ns) :
    (nsOf[l1] # NoPath /\ nsOf[l2] # NoPath /\ nsOf[l1] # nsOf[l2]
     /\ Cached(l1) /\ Cached(l2)) =>
      \A k1 \in DOMAIN ns[l1], k2 \in DOMAIN ns[l2] :
        (/\ ns[l1][k1].kind = "ns" /\ ns[l2][k2].kind = "ns"
         /\ nsOf[ns[l1][k1].ns] = nsOf[ns[l2][k2].ns])
        => ns[l1][k1].ns = ns[l2][k2].ns

\* A step in which loadModule returns by throwing what the module body raised.
BodyFailed == Len(stack') = Len(stack) - 1 /\ exc' # NoExc

\* C5 (as claimed): when a module body raises, loadModule unloads the module
\* and throws the same exception, and afterwards the cache has no entry for
\* the module and the module name is not bound in the local namespace of the
\* importing frame.
BodyFailureLeavesNameUnbound ==
  [][BodyFailed =>
       LET top == Last(stack) IN
       /\ top.name \notin DOMAIN modules'
       /\ (exc # NoExc => exc' = exc)
       /\ top.key \notin DOMAIN ns'[frames[top.ec].local]]_vars

\* C5 (amended): when a module body raises, loadModule unloads the module
\* and throws the same exception; afterwards the cache has no entry for the
\* module, every other entry is as it was, and the failing `use` has bound
\* nothing: every namespace, the local namespace of the importing frame
\* among them, is as it was when the body raised.
BodyFailureUnloads ==
  [][BodyFailed =>
       LET top == Last(stack) IN
       /\ top.name \notin DOMAIN modules'
       /\ \A p \in DOMAIN modules \ {top.name} :
            p \in DOMAIN modules' /\ modules'[p] = modules[p]
       /\ (exc # NoExc => exc' = exc)
       /\ exc' \in BodyExcs
       /\ ns' = ns]_vars

\* C5 witness: a `use` has failed with what the module body raised, in a
\* frame whose local namespace already binds a module, and the namespace
\* made for the module that failed is no longer in the cache.
BodyFailureSeen ==
  /\ exc \in BodyExcs
  /\ \E f \in FrameIds : Active(f) /\ DOMAIN ns[frames[f].local] # {}
  /\ \E l \in 1..Len(ns) : nsOf[l] # NoPath /\ nsOf[l] \notin DOMAIN modules

\* ------------------------------------------------ claims on cyclic loads
NoModuleLoadingTwice ==
  \A i, j \in 1..Len(stack) : i # j => stack[i].name # stack[j].name

\* A step in which a `use` is served from the cache.
ServedFromCache ==
  Len(stack') = Len(stack) /\ pcs' # pcs /\ exc = NoExc /\ exc' = NoExc

\* A `use` of a module whose body is still running binds the namespace that
\* loadModule cached for that body.
ReentrantUseGetsPartial ==
  \A i \in 1..Len(stack) :
    (ServedFromCache /\ ModPath(CurStmt.spec) = stack[i].name) =>
      ns'[frames[CurFrame].local][UseKey(CurStmt.spec)] = NsVal(stack[i].ns)

\* C4 (as claimed): the top-level `use` eventually completes, each module
\* body is executed at most once during the load, and a re-entrant `use` of
\* a module that is still loading gets the cached partial namespace.
CyclicLoadRunsBodiesOnce ==
  /\ <>CycDone
  /\ [](\A m \in CycPaths : execs[m] <= 1)
  /\ [][ReentrantUseGetsPartial]_vars

\* C4 (amended): the top-level `use` eventually completes; no module is
\* loading twice at a time, and each module body is executed at most once
\* unless it raised: at most once more than it has raised (a body that
\* raises is unloaded, and a later `use` of it in the same load, after a
\* `try` caught the exception, executes it again); a re-entrant `use` of a
\* module that is still loading gets the cached partial namespace.
CyclicLoadTerminates ==
  /\ <>CycDone
  /\ []NoModuleLoadingTwice
  /\ [](\A m \in CycPaths : execs[m] <= fails[m] + 1)
  /\ [][ReentrantUseGetsPartial]_vars

\* C4 witness: the top-level `use` has completed normally and two cached
\* modules bind each other's namespace.
MutualUseLoaded ==
  /\ CycDone /\ exc = NoExc
  /\ \E l1, l2 \in 1..Len(ns) :
       /\ l1 # l2 /\ nsOf[l1] # NoPath /\ nsOf[l2] # NoPath
       /\ Cached(l1) /\ Cached(l2)
       /\ \E k \in DOMAIN ns[l1] : ns[l1][k] = NsVal(l2)
       /\ \E k \in DOMAIN ns[l2] : ns[l2][k] = NsVal(l1)


\* ---------------------------------------------------------------------------
\* Two pipeline stages, each its own task, both executing `use`.  loadModule
\* takes no lock: a task's read of Evaler.modules, its insertion and its
\* deletion are each an access that begins and ends, and the steps of the
\* two tasks interleave freely.
\* ---------------------------------------------------------------------------

Tasks == {"t1", "t2"}

Accessing(t) == task[t].pc \in {"reading", "inserting", "deleting"}
Writing(t) == task[t].pc \in {"inserting", "deleting"}

\* A map access that overlaps a write is a data race: the Go runtime may stop
\* the process ("concurrent map writes") or let the access go on.
Races(t, write) ==
  \E u \in Tasks \ {t} : Accessing(u) /\ (write \/ Writing(u))

Begin(t, from, to, write) ==
  /\ ~panicked
  /\ task[t].pc = from
  /\ task' = [task EXCEPT ![t].pc = to]
  /\ panicked' \in (IF Races(t, write) THEN BOOLEAN ELSE {FALSE})
  /\ UNCHANGED <<modules, made, ran>>

InitConc ==
  /\ InitEval /\ CycIdle /\ FormIdle
  /\ task \in [Tasks -> [pc : {"use"}, path : CycPaths, ns : {0}, err : {NoExc}]]
  /\ made = <<>>
  /\ ran = [p \in CycPaths |-> 0]

\* ns, ok := ec.Evaler.modules[name]: the read begins ...
TaskLookupBegin(t) == Begin(t, "use", "reading", FALSE)

\* ... and ends: a hit returns the cached namespace.
TaskLookupEnd(t) ==
  /\ ~panicked
  /\ task[t].pc = "reading"
  /\ task' = IF task[t].path \in DOMAIN modules
               THEN [task EXCEPT ![t].pc = "bind", ![t].ns = modules[task[t].path]]
               ELSE [task EXCEPT ![t].pc = "source"]
  /\ UNCHANGED <<modules, made, ran, panicked>>

\* The source is found, read, parsed and compiled, and modGlobal is made.
TaskLoadSource(t, env) ==
  /\ ~panicked
  /\ task[t].pc = "source"
  /\ IF LoadSource(libDir, env) # NoExc
       THEN /\ task' = [task EXCEPT ![t].pc = "done", ![t].err = LoadSource(libDir, env)]
            /\ made' = made
       ELSE /\ made' = Append(made, task[t].path)
            /\ task' = [task EXCEPT ![t].pc = "insert", ![t].ns = Len(made) + 1]
  /\ UNCHANGED <<modules, ran, panicked>>

\* ec.Evaler.modules[name] = modGlobal: the write begins ...
TaskInsertBegin(t) == Begin(t, "insert", "inserting", TRUE)

\* ... and ends.
TaskInsertEnd(t) ==
  /\ ~panicked
  /\ task[t].pc = "inserting"
  /\ modules' = ModulesWhileLoading(modules, task[t].path, task[t].ns)
  /\ task' = [task EXCEPT ![t].pc = "body"]
  /\ UNCHANGED <<made, ran, panicked>>

\* err = newEc.PEval(op).
TaskBody(t, res) ==
  /\ ~panicked
  /\ task[t].pc = "body"
  /\ ran' = [ran EXCEPT ![task[t].path] = @ + 1]
  /\ task' = IF res = NoExc
               THEN [task EXCEPT ![t].pc = "bind"]
               ELSE [task EXCEPT ![t].pc = "delete", ![t].err = res]
  /\ UNCHANGED <<modules, made, panicked>>

\* delete(ec.modules, name): the write begins ...
TaskDeleteBegin(t) == Begin(t, "delete", "deleting", TRUE)

\* ... and ends; throw(err).
TaskDeleteEnd(t) ==
  /\ ~panicked
  /\ task[t].pc = "deleting"
  /\ modules' = ModulesAfterFailure(modules, task[t].path)
  /\ task' = [task EXCEPT ![t].pc = "done"]
  /\ UNCHANGED <<made, ran, panicked>>

\* use puts the namespace loadModule returned into the local scope.
TaskBind(t) ==
  /\ ~panicked
  /\ task[t].pc = "bind"
  /\ task' = [task EXCEPT ![t].pc = "done"]
  /\ UNCHANGED <<modules, made, ran, panicked>>

concRest == <<frames, ports, ns, stack, exc, libDir, closedF, closedCh, nsOf, cycVars, formVars>>

NextConc ==
  \/ (\E t \in Tasks : TaskLookupBegin(t)) /\ UNCHANGED concRest
  \/ (\E t \in Tasks : TaskLookupEnd(t)) /\ UNCHANGED concRest
  \/ (\E t \in Tasks : \E env \in LoadEnvs : TaskLoadSource(t, env)) /\ UNCHANGED concRest
  \/ (\E t \in Tasks : TaskInsertBegin(t)) /\ UNCHANGED concRest
  \/ (\E t \in Tasks : TaskInsertEnd(t)) /\ UNCHANGED concRest
  \/ (\E t \in Tasks : \E res \in {NoExc} \cup BodyExcs : TaskBody(t, res)) /\ UNCHANGED concRest
  \/ (\E t \in Tasks : TaskDeleteBegin(t)) /\ UNCHANGED concRest
  \/ (\E t \in Tasks : TaskDeleteEnd(t)) /\ UNCHANGED concRest
  \/ (\E t \in Tasks : TaskBind(t)) /\ UNCHANGED concRest

SpecConc == InitConc /\ [][NextConc]_vars

\* ---------------------------------------------------------------------------
\* Special forms.  An exception is its cause and the call that raised it; a
\* PCall returns one or nil, a Call or a throw lets it propagate out of the
\* operation.
\* ---------------------------------------------------------------------------

Causes == {"Error", "Return", "Break", "Continue"}

Exc(cause, from) == [cause |-> cause, from |-> from]

\* The nil error.
Nil == Exc("nil", "nil")

\* What calling a lambda can come to.
Outcomes(from) == {Nil} \cup {Exc(c, from) : c \in Causes}

\* An entry of the log: the call made and the error it came back with.
Called(call, out) == [call |-> call, out |-> out]

ErrPathMustBeString == Exc("Error", "set")

\* PwdVariable.Set: only a string is a path; Chdir of a string may fail.
PwdVariableSet(isString, chdirErr) ==
  IF ~isString THEN ErrPathMustBeString ELSE chdirErr

\* vartypes.Variable.Set of an exception, for a plain variable and for $pwd.
SetException(var) ==
  IF var = "pwd" THEN PwdVariableSet(FALSE, Nil) ELSE Nil

\* The try forms compileTry accepts: the except variable comes with except.
TryForms ==
  { t \in [kind : {"try"}, except : BOOLEAN, exceptVar : {"nil", "ptr", "pwd"},
           else : BOOLEAN, finally : BOOLEAN] :
      t.exceptVar # "nil" => t.except }

InitTry ==
  /\ InitEval /\ CycIdle /\ ConcIdle
  /\ form \in TryForms
  /\ fpc = "body" /\ ferr = Nil /\ flog = <<>> /\ fout = <<>> /\ fres = Nil

\* ec.fork("try body").PCall(body) and the branch on its error.
TryBody(out) ==
  /\ fpc = "body"
  /\ flog' = Append(flog, Called("body", out))
  /\ ferr' = out
  /\ fpc' = IF out # Nil
              THEN IF form.except
                     THEN IF form.exceptVar # "nil" THEN "set" ELSE "except"
                     ELSE "finally"
              ELSE IF form.else THEN "else" ELSE "finally"
  /\ UNCHANGED <<form, fout, fres>>

\* exceptVar.Set(err) and maybeThrow of its error.
TrySetExceptVar ==
  /\ fpc = "set"
  /\ LET err == SetException(form.exceptVar) IN
       /\ flog' = Append(flog, Called("set", err))
       /\ IF err # Nil
            THEN fres' = err /\ fpc' = "done"
            ELSE fres' = fres /\ fpc' = "except"
  /\ UNCHANGED <<form, ferr, fout>>

\* err = ec.fork("try except").PCall(except).
TryExcept(out) ==
  /\ fpc = "except"
  /\ flog' = Append(flog, Called("except", out))
  /\ ferr' = out
  /\ fpc' = "finally"
  /\ UNCHANGED <<form, fout, fres>>

\* err = ec.fork("try else").PCall(else_).
TryElse(out) ==
  /\ fpc = "else"
  /\ flog' = Append(flog, Called("else", out))
  /\ ferr' = out
  /\ fpc' = "finally"
  /\ UNCHANGED <<form, fout, fres>>

\* finally.Call(...) if there is a finally, then throw(err) if err is set.  Call does
\* not catch: an exception of the finally body leaves the operation at once.
TryFinally(out) ==
  /\ fpc = "finally"
  /\ IF form.finally
       THEN /\ flog' = Append(flog, Called("finally", out))
            /\ fres' = IF out # Nil THEN out ELSE ferr
       ELSE /\ out = Nil
            /\ flog' = flog
            /\ fres' = ferr
  /\ fpc' = "done"
  /\ UNCHANGED <<form, ferr, fout>>

NextTry ==
  \/ (\E out \in Outcomes("body") : TryBody(out)) /\ UNCHANGED <<evalVars, cycVars, concVars>>
  \/ TrySetExceptVar /\ UNCHANGED <<evalVars, cycVars, concVars>>
  \/ (\E out \in Outcomes("except") : TryExcept(out)) /\ UNCHANGED <<evalVars, cycVars, concVars>>
  \/ (\E out \in Outcomes("else") : TryElse(out)) /\ UNCHANGED <<evalVars, cycVars, concVars>>
  \/ (\E out \in Outcomes("finally") : TryFinally(out)) /\ UNCHANGED <<evalVars, cycVars, concVars>>

SpecTry == InitTry /\ [][NextTry]_vars


\* ---------------------------------------------------------------------------
\* while.
\* ---------------------------------------------------------------------------

\* An entry of the log for an evaluated condition: whether allTrue held of
\* its values, and the exception it threw if it threw.
Tested(test, out) == [call |-> "cond", out |-> out, test |-> test]

\* What evaluating the condition can come to: values, or an exception.
CondOutcomes ==
  {Tested(t, Nil) : t \in BOOLEAN} \cup {Tested(FALSE, Exc(c, "cond")) : c \in Causes}

\* What the loop does with the error PCall returned: "next" for the next
\* round of the for loop, "throw" to rethrow.  Break runs `continue`.
AfterBody(err) ==
  IF err = Nil THEN "next"
  ELSE IF err.cause = "Continue" THEN "next"
  ELSE IF err.cause = "Break" THEN "next"
  ELSE "throw"

InitWhile ==
  /\ InitEval /\ CycIdle /\ ConcIdle
  /\ form = [kind |-> "while"]
  /\ fpc = "cond" /\ ferr = Nil /\ flog = <<>> /\ fout = <<>> /\ fres = Nil

\* cond := condOp.Exec(ec.fork("while cond")); if !allTrue(cond) { break }
WhileCond(c) ==
  /\ fpc = "cond"
  /\ Len(flog) < MaxCalls
  /\ flog' = Append(flog, c)
  /\ IF c.out # Nil
       THEN fres' = c.out /\ fpc' = "done"
       ELSE fres' = fres /\ fpc' = IF c.test THEN "body" ELSE "done"
  /\ UNCHANGED <<form, ferr, fout>>

\* err := ec.fork("while").PCall(body) and the branch on err.
WhileBody(out) ==
  /\ fpc = "body"
  /\ flog' = Append(flog, Called("body", out))
  /\ ferr' = out
  /\ IF AfterBody(out) = "throw"
       THEN fres' = out /\ fpc' = "done"
       ELSE fres' = fres /\ fpc' = "cond"
  /\ UNCHANGED <<form, fout>>

NextWhile ==
  \/ (\E c \in CondOutcomes : WhileCond(c)) /\ UNCHANGED <<evalVars, cycVars, concVars>>
  \/ (\E out \in Outcomes("body") : WhileBody(out)) /\ UNCHANGED <<evalVars, cycVars, concVars>>

SpecWhile == InitWhile /\ [][NextWhile]_vars

\* ---------------------------------------------------------------------------
\* and, or.
\* ---------------------------------------------------------------------------

BoolV(b) == [type |-> "bool", repr |-> IF b THEN "true" ELSE "false"]
StringV(str) == [type |-> "string", repr |-> str]

Vals == {BoolV(TRUE), BoolV(FALSE), StringV(""), StringV("x")}

\* types.ToBool, by the truthiness the language defines: Bool(false) and the
\* empty string are false-ish.
ToBool(v) == ~(v = BoolV(FALSE) \/ v = StringV(""))

\* compileAnd and compileOr: the arguments init and stopAt of compileAndOr.
AndOrInit(kind) == kind = "and"
AndOrStopAt(kind) == kind = "or"

AndOrForms == [kind : {"and", "or"}, n : 0..MaxArgs]

SeqsUpTo(S, n) == UNION {[1..k -> S] : k \in 0..n}

\* What op.Exec of an argument compound can come to: its values, or an
\* exception thrown instead of them.
Evaluated(arg, vals, out) == [arg |-> arg, vals |-> vals, out |-> out]

ArgOutcomes(arg) ==
  {Evaluated(arg, vs, Nil) : vs \in SeqsUpTo(Vals, MaxVals)}
    \cup {Evaluated(arg, <<>>, Exc("Error", "arg"))}

\* The inner loop over the values: the place of the first value whose
\* truthiness is stopAt, 0 if there is none.
FirstStopMut(vals, stopAt) == 0
FirstStop(vals, stopAt) ==
  IF \E j \in 1..Len(vals) : ToBool(vals[j]) = stopAt
    THEN CHOOSE j \in 1..Len(vals) :
           /\ ToBool(vals[j]) = stopAt
           /\ \A k \in 1..(j - 1) : ToBool(vals[k]) # stopAt
    ELSE 0

InitAndOr ==
  /\ InitEval /\ CycIdle /\ ConcIdle
  /\ form \in AndOrForms
  /\ fpc = "args" /\ ferr = BoolV(AndOrInit(form.kind)) /\ flog = <<>>
  /\ fout = <<>> /\ fres = Nil

\* lastValue after the loop has gone over the given values without stopping.
LastValueMut(prev, vals) == prev
LastValue(prev, vals) == IF vals # <<>> THEN Last(vals) ELSE prev

\* One round of `for _, op := range argOps`: op.Exec(ec), then the values.
AndOrArg(e) ==
  /\ fpc = "args"
  /\ e.arg = Len(flog) + 1
  /\ e.arg <= form.n
  /\ flog' = Append(flog, e)
  /\ LET k == FirstStop(e.vals, AndOrStopAt(form.kind)) IN
       IF e.out # Nil
         THEN fres' = e.out /\ fpc' = "done" /\ UNCHANGED <<ferr, fout>>
         ELSE IF k # 0
           THEN /\ fout' = Append(fout, e.vals[k])
                /\ ferr' = LastValue(ferr, SubSeq(e.vals, 1, k - 1))
                /\ fpc' = "done"
                /\ fres' = fres
           ELSE /\ ferr' = LastValue(ferr, e.vals)
                /\ UNCHANGED <<fout, fpc, fres>>
  /\ UNCHANGED form

\* After the last argument: ec.OutputChan() <- lastValue.
AndOrEnd ==
  /\ fpc = "args"
  /\ Len(flog) = form.n
  /\ fout' = Append(fout, ferr)
  /\ fpc' = "done"
  /\ UNCHANGED <<form, ferr, flog, fres>>

NextAndOr ==
  \/ (\E a \in 1..MaxArgs : \E e \in ArgOutcomes(a) : AndOrArg(e)) /\ UNCHANGED <<evalVars, cycVars, concVars>>
  \/ AndOrEnd /\ UNCHANGED <<evalVars, cycVars, concVars>>

SpecAndOr == InitAndOr /\ [][NextAndOr]_vars

\* ---------------------------------------------------------------------------
\* Claims on try.
\* ---------------------------------------------------------------------------

\* The places of the log where the given clause was called.
CallsOf(call) == {i \in 1..Len(flog) : flog[i].call = call}

\* The error the given clause came back with, nil if it was never called.
OutOf(call) ==
  IF CallsOf(call) = {} THEN Nil ELSE flog[CHOOSE i \in CallsOf(call) : TRUE].out

\* C7 (as claimed): a try form with a finally clause calls the finally body
\* exactly once, as the last of its calls, on every path through the form,
\* the one where setting the except variable fails included.
FinallyCalledOnce ==
  form.finally =>
    /\ Cardinality(CallsOf("finally")) <= 1
    /\ \A i \in CallsOf("finally") : i = Len(flog)
    /\ fpc = "done" => Cardinality(CallsOf("finally")) = 1

\* The exception the claim says remains when the clauses are done.
Remaining ==
  IF OutOf("body") # Nil
    THEN IF form.except THEN OutOf("except") ELSE OutOf("body")
    ELSE IF form.else THEN OutOf("else") ELSE Nil

\* C8 (as claimed): a try form throws exactly when an exception remains (the
\* body's when there is no except clause, the except body's, the else
\* body's), it throws that exception, and after finally has run; otherwise
\* it completes without exception.  The claim is about the exceptions of the
\* body, except and else clauses: it is stated for the executions whose
\* finally body, if called, completed.
TryOutcome ==
  (fpc = "done" /\ OutOf("finally") = Nil) =>
    /\ fres = Remaining
    /\ (fres # Nil /\ form.finally) => CallsOf("finally") # {}

\* ---------------------------------------------------------------------------
\* Claims on while, and, or.
\* ---------------------------------------------------------------------------

\* C9 (as claimed): when the body of a while loop raises Break the loop exits
\* cleanly: that call of the body is the last thing the loop does (no
\* condition is evaluated and no body is called after it) and the form has
\* completed without raising.
BreakExitsLoop ==
  \A i \in CallsOf("body") :
    flog[i].out.cause = "Break" =>
      i = Len(flog) /\ fpc = "done" /\ fres = Nil

\* The argument has produced a value that stops the form.
HasStop(e) ==
  \E j \in 1..Len(e.vals) : ToBool(e.vals[j]) = AndOrStopAt(form.kind)

\* The first such value.
StopValue(e) ==
  e.vals[CHOOSE j \in 1..Len(e.vals) :
           /\ ToBool(e.vals[j]) = AndOrStopAt(form.kind)
           /\ \A k \in 1..(j - 1) : ToBool(e.vals[k]) # AndOrStopAt(form.kind)]

\* C10: and / or evaluate their argument compounds left to right, and once
\* an argument has produced a false-ish (for or: true-ish) value no later
\* argument is evaluated: the form is done, it has output that value, and it
\* has raised nothing.
ShortCircuit ==
  /\ \A i \in 1..Len(flog) : flog[i].arg = i
  /\ \A i \in 1..Len(flog) :
       HasStop(flog[i]) =>
         /\ i = Len(flog)
         /\ fpc = "done"
         /\ fres = Nil
         /\ fout = <<StopValue(flog[i])>>

\* `and false (fail oops)`: the second argument was never evaluated.
AndFalseStops ==
  /\ form = [kind |-> "and", n |-> 2]
  /\ flog = <<Evaluated(1, <<BoolV(FALSE)>>, Nil)>>
  /\ fpc = "done"
  /\ fres = Nil
  /\ fout = <<BoolV(FALSE)>>

\* ---------------------------------------------------------------------------
\* Claims on the module cache under concurrency.
\* ---------------------------------------------------------------------------

\* No write of the module cache overlaps another task's read or write.
WritesExclusive ==
  \A t \in Tasks : \A u \in Tasks \ {t} : ~(Writing(t) /\ Accessing(u))

\* While no load has failed, each path has had one namespace made for it
\* and its body executed once, however many tasks `use` it.
LoadedOnce ==
  (\A t \in Tasks : task[t].err = NoExc) =>
    \A p \in CycPaths :
      /\ Cardinality({i \in 1..Len(made) : made[i] = p}) <= 1
      /\ ran[p] <= 1

\* C6 (as claimed): when two tasks execute `use` concurrently, no write of
\* the Evaler's module cache overlaps another read or write, and two tasks
\* loading the same uncached path create one namespace and execute the
\* module body once.
ModuleCacheExclusive == WritesExclusive /\ LoadedOnce


\* ---------------------------------------------------------------------------
\* Claims on the result of and, or.
\* ---------------------------------------------------------------------------

\* All the values the evaluated arguments have produced, in order.
RECURSIVE ValuesUpTo(_)
ValuesUpTo(i) == IF i = 0 THEN <<>> ELSE ValuesUpTo(i - 1) \o flog[i].vals

Produced == ValuesUpTo(Len(flog))

Stops(vs) == {j \in 1..Len(vs) : ToBool(vs[j]) = AndOrStopAt(form.kind)}

\* The value the form is to send: the first false-ish (or: true-ish) value
\* produced, else the last value produced, else Bool(true) (or: Bool(false)).
AndOrValue ==
  IF Stops(Produced) # {}
    THEN Produced[CHOOSE j \in Stops(Produced) : \A k \in Stops(Produced) : j <= k]
  ELSE IF Produced # <<>> THEN Last(Produced)
  ELSE BoolV(form.kind = "and")

\* C11: an and / or form whose arguments raise nothing sends exactly one
\* value on the output channel, when it is done and not before: the first
\* false-ish value produced (or: true-ish), else the last value produced,
\* else Bool(true) (or: Bool(false)); unless it stopped at such a value it
\* has evaluated every argument.
AndOrResult ==
  /\ fpc # "done" => fout = <<>>
  /\ (fpc = "done" /\ fres = Nil) =>
       /\ fout = <<AndOrValue>>
       /\ Stops(Produced) = {} => Len(flog) = form.n

\* C11 witness: `and` of two arguments, the first producing one true-ish
\* value and the second none, has sent the value of the first.
AndSendsLastValue ==
  /\ form = [kind |-> "and", n |-> 2]
  /\ flog = <<Evaluated(1, <<StringV("x")>>, Nil), Evaluated(2, <<>>, Nil)>>
  /\ fpc = "done"
  /\ fout = <<StringV("x")>>


\* ---------------------------------------------------------------------------
\* for.
\* ---------------------------------------------------------------------------

\* An entry of the log: the call made for the i-th element (0: for none) and
\* the error it came back with.
ForCalled(call, i, out) == [call |-> call, elem |-> i, out |-> out]

\* The for forms: the variable is a plain variable or $pwd, the collection
\* holds strings and other values.
ForForms ==
  [kind : {"for"}, else : BOOLEAN, var : {"ptr", "pwd"},
   elems : SeqsUpTo({StringV("x"), BoolV(TRUE)}, MaxElems)]

\* variable.Set(v): a plain variable takes any value; see PwdVariable.Set.
SetValue(var, v, chdirErr) ==
  IF var = "pwd" THEN PwdVariableSet(v.type = "string", chdirErr) ELSE Nil

\* The errors Chdir can come back with.
ChdirErrs(var, v) ==
  IF var = "pwd" /\ v.type = "string" THEN {Nil, Exc("Error", "chdir")} ELSE {Nil}

\* The elements the callback has been called for: iterated is SetCount > 0.
SetCount == Cardinality({j \in 1..Len(flog) : flog[j].call = "set"})

\* Iterable.Iterate: the callback is called for the elements in order, until
\* it returns false or there is no element left; then Iterate returns.
Iterate(i, n, goOn) == IF goOn /\ i < n THEN "set" ELSE "else"

\* What the callback does with the error PCall returned: "next" (return
\* true), "stop" (return false), "throw".
AfterForBodyMut(err) ==
  IF err = Nil \/ err.cause \in {"Continue", "Break"} THEN "next" ELSE "throw"
AfterForBody(err) ==
  IF err = Nil THEN "next"
  ELSE IF err.cause = "Continue" THEN "next"
  ELSE IF err.cause = "Break" THEN "stop"
  ELSE "throw"

\* if !iterated && elseBody != nil
ElseDueMut(iterated, hasElse) == hasElse
ElseDue(iterated, hasElse) == ~iterated /\ hasElse

InitFor ==
  /\ InitEval /\ CycIdle /\ ConcIdle
  /\ form \in ForForms
  /\ fpc = "start" /\ ferr = Nil /\ flog = <<>> /\ fout = <<>> /\ fres = Nil

\* The variable, the value being iterated and the lambdas are evaluated
\* (any of which may throw), and Iterate is entered.
ForStart(out) ==
  /\ fpc = "start"
  /\ flog' = Append(flog, ForCalled("iter", 0, out))
  /\ IF out # Nil
       THEN fres' = out /\ fpc' = "done"
       ELSE fres' = fres /\ fpc' = Iterate(0, Len(form.elems), TRUE)
  /\ UNCHANGED <<form, ferr, fout>>

\* The callback: iterated = true; err := variable.Set(v); maybeThrow(err).
ForSet(chdirErr) ==
  /\ fpc = "set"
  /\ LET i == SetCount + 1
         err == SetValue(form.var, form.elems[i], chdirErr) IN
       /\ chdirErr \in ChdirErrs(form.var, form.elems[i])
       /\ flog' = Append(flog, ForCalled("set", i, err))
       /\ IF err # Nil
            THEN fres' = err /\ fpc' = "done"
            ELSE fres' = fres /\ fpc' = "body"
  /\ UNCHANGED <<form, ferr, fout>>

\* The callback: err = ec.fork("for").PCall(body) and the branch on err.
ForBody(out) ==
  /\ fpc = "body"
  /\ flog' = Append(flog, ForCalled("body", SetCount, out))
  /\ ferr' = out
  /\ IF AfterForBody(out) = "throw"
       THEN fres' = out /\ fpc' = "done"
       ELSE /\ fres' = fres
            /\ fpc' = Iterate(SetCount, Len(form.elems), AfterForBody(out) = "next")
  /\ UNCHANGED <<form, fout>>

\* After Iterate: elseBody.Call(...) if nothing was iterated and there is an
\* else; Call does not catch.
ForElse(out) ==
  /\ fpc = "else"
  /\ IF ElseDue(SetCount > 0, form.else)
       THEN flog' = Append(flog, ForCalled("else", 0, out)) /\ fres' = out
       ELSE out = Nil /\ flog' = flog /\ fres' = fres
  /\ fpc' = "done"
  /\ UNCHANGED <<form, ferr, fout>>

NextFor ==
  \/ (\E out \in {Nil, Exc("Error", "iter")} : ForStart(out)) /\ UNCHANGED <<evalVars, cycVars, concVars>>
  \/ (\E e \in {Nil, Exc("Error", "chdir")} : ForSet(e)) /\ UNCHANGED <<evalVars, cycVars, concVars>>
  \/ (\E out \in Outcomes("body") : ForBody(out)) /\ UNCHANGED <<evalVars, cycVars, concVars>>
  \/ (\E out \in Outcomes("else") : ForElse(out)) /\ UNCHANGED <<evalVars, cycVars, concVars>>

SpecFor == InitFor /\ [][NextFor]_vars


\* ---------------------------------------------------------------------------
\* Claims on for.
\* ---------------------------------------------------------------------------

\* The entries of the log made by the callback, in order.
Rounds == SubSeq(flog, 2, Len(flog) - (IF CallsOf("else") # {} THEN 1 ELSE 0))

\* C12: a for loop sets the variable to each element and then calls the
\* body, once per element and in iteration order; after a Continue (or a
\* normal end) of the body the next element is processed; after a Break
\* nothing more is set or called and the form completes without raising; any
\* other exception of the body, and a failure to set the variable,
\* is thrown by the form and ends the iteration.
ForProtocol ==
  /\ \A j \in 1..Len(Rounds) :
       /\ Rounds[j].call = (IF j % 2 = 1 THEN "set" ELSE "body")
       /\ Rounds[j].elem = (j + 1) \div 2
       /\ Rounds[j].elem <= Len(form.elems)
  /\ \A j \in CallsOf("set") :
       flog[j].out # Nil => j = Len(flog) /\ fpc = "done" /\ fres = flog[j].out
  /\ \A j \in CallsOf("body") :
       LET out == flog[j].out IN
       /\ AfterBody(out) = "throw" =>
            j = Len(flog) /\ fpc = "done" /\ fres = out
       /\ out.cause = "Break" =>
            j = Len(flog) /\ fpc \in {"else", "done"} /\ fres = Nil
       /\ ((out = Nil \/ out.cause = "Continue") /\ j = Len(flog)) =>
            /\ fres = Nil
            /\ flog[j].elem < Len(form.elems) => fpc = "set"
  /\ (fpc = "done" /\ fres = Nil /\ flog[1].out = Nil
      /\ \A j \in CallsOf("body") : flog[j].out.cause # "Break") =>
       SetCount = Len(form.elems)

\* C12 witness: the body raised Break on the first of two elements and the
\* form is done, without raising and without touching the second.
ForBreakStops ==
  /\ Len(form.elems) = 2
  /\ fpc = "done" /\ fres = Nil
  /\ Len(flog) = 3 /\ flog[3] = ForCalled("body", 1, Exc("Break", "body"))

\* C13: the else body of a for loop is called exactly when an else is given
\* and the collection produced no element, and then once; it is not called
\* when an element was produced, whatever the body did with it.
ForElseExactly ==
  /\ Cardinality(CallsOf("else")) <= 1
  /\ CallsOf("else") # {} => (form.else /\ form.elems = <<>>)
  /\ (fpc = "done" /\ flog[1].out = Nil /\ form.else /\ form.elems = <<>>) =>
       CallsOf("else") # {}

\* C13 witness: a for loop with an else over an empty collection is done
\* and has called the else body.
ForElseCalled ==
  /\ form.kind = "for" /\ form.else /\ form.elems = <<>>
  /\ fpc = "done" /\ fres = Nil
  /\ flog = <<ForCalled("iter", 0, Nil), ForCalled("else", 0, Nil)>>


\* ---------------------------------------------------------------------------
\* if.
\* ---------------------------------------------------------------------------

\* An entry of the log: the i-th condition evaluated (test: whether allTrue
\* held of its values) or a body called (0: the else body), the frame it was
\* given, and the exception that came out of it.
IfCalled(call, i, test, out) ==
  [call |-> call, idx |-> i, test |-> test, out |-> out,
   frame |-> IF call = "cond" THEN "fork: if cond"
             ELSE IF call = "body" THEN "fork: if body" ELSE "fork: if else"]

IfForms == [kind : {"if"}, n : 1..MaxConds, else : BOOLEAN]

\* What follows the call of a body: `return`.
IfAfterBodyMut(i, n) == IF i < n THEN "cond" ELSE "else"
IfAfterBody(i, n) == "done"

InitIf ==
  /\ InitEval /\ CycIdle /\ ConcIdle
  /\ form \in IfForms
  /\ fpc = "cond" /\ ferr = Nil /\ flog = <<>> /\ fout = <<>> /\ fres = Nil

\* One round of `for i, condOp := range condOps`:
\* allTrue(condOp.Exec(ec.fork("if cond"))).
IfCond(c) ==
  /\ fpc = "cond"
  /\ LET i == Cardinality(CallsOf("cond")) + 1 IN
       /\ flog' = Append(flog, IfCalled("cond", i, c.test, c.out))
       /\ IF c.out # Nil
            THEN fres' = c.out /\ fpc' = "done"
            ELSE /\ fres' = fres
                 /\ fpc' = IF c.test THEN "body"
                           ELSE IF i < form.n THEN "cond" ELSE "else"
  /\ UNCHANGED <<form, ferr, fout>>

\* bodies[i].Call(ec.fork("if body"), NoArgs, NoOpts); return
IfBody(out) ==
  /\ fpc = "body"
  /\ LET i == Cardinality(CallsOf("cond")) IN
       /\ flog' = Append(flog, IfCalled("body", i, FALSE, out))
       /\ fres' = out
       /\ fpc' = IF out # Nil THEN "done" ELSE IfAfterBody(i, form.n)
  /\ UNCHANGED <<form, ferr, fout>>

\* After the conditions: if elseOp.Func != nil { else_.Call(...) }.
IfElse(out) ==
  /\ fpc = "else"
  /\ IF form.else
       THEN flog' = Append(flog, IfCalled("else", 0, FALSE, out)) /\ fres' = out
       ELSE out = Nil /\ flog' = flog /\ fres' = fres
  /\ fpc' = "done"
  /\ UNCHANGED <<form, ferr, fout>>

NextIf ==
  \/ (\E c \in CondOutcomes : IfCond(c)) /\ UNCHANGED <<evalVars, cycVars, concVars>>
  \/ (\E out \in Outcomes("body") : IfBody(out)) /\ UNCHANGED <<evalVars, cycVars, concVars>>
  \/ (\E out \in Outcomes("else") : IfElse(out)) /\ UNCHANGED <<evalVars, cycVars, concVars>>

SpecIf == InitIf /\ [][NextIf]_vars

\* ---------------------------------------------------------------------------
\* Claims on if.
\* ---------------------------------------------------------------------------

\* The condition evaluated at place j of the log held.
Passed(j) == flog[j].call = "cond" /\ flog[j].out = Nil /\ flog[j].test

\* The condition evaluated at place j of the log failed.
Failed(j) == flog[j].call = "cond" /\ flog[j].out = Nil /\ ~flog[j].test

\* C14: the conditions of an if / elif chain are evaluated in source order,
\* each in a forked frame; the body of the first condition that holds is
\* called, after which no condition is evaluated and no other body called;
\* the else body is called exactly when every condition failed and there is
\* an else; at most one body is called.
IfChain ==
  /\ \A j \in CallsOf("cond") :
       /\ flog[j].idx = j /\ j <= form.n
       /\ flog[j].frame = "fork: if cond"
       /\ \A k \in 1..(j - 1) : Failed(k)
  /\ Cardinality(CallsOf("body") \cup CallsOf("else")) <= 1
  /\ \A b \in CallsOf("body") :
       /\ b = Len(flog) /\ b > 1 /\ Passed(b - 1)
       /\ flog[b].idx = flog[b - 1].idx
       /\ flog[b].frame = "fork: if body"
  /\ \A j \in CallsOf("cond") :
       Passed(j) => /\ \A k \in CallsOf("cond") : k <= j
                    /\ fpc \in {"body", "done"}
                    /\ fpc = "done" => CallsOf("body") # {}
  /\ \A e \in CallsOf("else") :
       /\ form.else /\ e = Len(flog) /\ e = form.n + 1
       /\ \A k \in 1..form.n : Failed(k)
  /\ (fpc = "done" /\ form.else /\ Len(flog) >= form.n
      /\ \A k \in 1..form.n : Failed(k)) => CallsOf("else") # {}

\* C14 witness: of two conditions the first held; its body was called and
\* the form is done without having evaluated the second.
IfFirstTaken ==
  /\ form.kind = "if" /\ form.n = 2
  /\ fpc = "done" /\ fres = Nil
  /\ flog = <<IfCalled("cond", 1, TRUE, Nil), IfCalled("body", 1, FALSE, Nil)>>


\* ---------------------------------------------------------------------------
\* An exception on its way out: a body raises, and each form around it, from
\* the innermost to the top-level evaluation, gets the error of its PCall /
\* PEval and handles or rethrows it.
\* ---------------------------------------------------------------------------

\* The forms around the body: the wrapper of a function defined with fn, a
\* while loop, a for loop, a try without except.
Wrappers == {"fn", "while", "for", "try"}

FlowForms ==
  [kind : {"flow"}, nest : SeqsUpTo(Wrappers, MaxNest), raise : Causes \cup {"nil"}]

\* An entry of the log: the form, the error it got, the error it threw.
Handled(call, in, out) == [call |-> call, in |-> in, out |-> out]

\* makeFnOp: err := ec.PEval(op); a Return is dropped, anything else rethrown.
MakeFnOpMut(err) == err
MakeFnOp(err) == IF err # Nil /\ err.cause # "Return" THEN err ELSE Nil

\* compileWhile, compileFor: Continue and Break stay in the loop, anything
\* else is rethrown.
LoopRethrows(err) == IF err # Nil /\ err.cause \notin {"Continue", "Break"} THEN err ELSE Nil

\* compileTry without except, else and finally: if err != nil { throw(err) }.
TryRethrows(err) == err

\* evalCtx.eval: errutil.Catch(&err) hands the error thrown to the caller.
EvalReturns(err) == err

InitFlow ==
  /\ InitEval /\ CycIdle /\ ConcIdle
  /\ form \in FlowForms
  /\ fpc = "body" /\ ferr = Nil /\ flog = <<>> /\ fout = <<>> /\ fres = Nil

\* The form that gets the error next: the top-level evaluation after the last.
Handler == IF Len(flog) <= Len(form.nest) THEN form.nest[Len(flog)] ELSE "eval"

\* The body ends: normally, or raising.
FlowBody ==
  /\ fpc = "body"
  /\ ferr' = IF form.raise = "nil" THEN Nil ELSE Exc(form.raise, "body")
  /\ flog' = Append(flog, Handled("body", Nil, ferr'))
  /\ fpc' = "unwind"
  /\ UNCHANGED <<form, fout, fres>>

Unwind(kind, out) ==
  /\ fpc = "unwind"
  /\ Handler = kind
  /\ flog' = Append(flog, Handled(kind, ferr, out))
  /\ ferr' = out
  /\ UNCHANGED <<form, fout, fres, fpc>>

\* The function returns to its caller.
FlowFn == Unwind("fn", MakeFnOp(ferr))

\* The while loop gets the error of its body.
FlowWhile == Unwind("while", LoopRethrows(ferr))

\* The for loop gets the error of its body.
FlowFor == Unwind("for", LoopRethrows(ferr))

\* The try form gets the error of its body.
FlowTry == Unwind("try", TryRethrows(ferr))

\* The top-level evaluation returns.
FlowEval ==
  /\ fpc = "unwind"
  /\ Handler = "eval"
  /\ flog' = Append(flog, Handled("eval", ferr, EvalReturns(ferr)))
  /\ fres' = EvalReturns(ferr)
  /\ fpc' = "done"
  /\ UNCHANGED <<form, ferr, fout>>

NextFlow ==
  \/ FlowBody /\ UNCHANGED <<evalVars, cycVars, concVars>>
  \/ FlowFn /\ UNCHANGED <<evalVars, cycVars, concVars>>
  \/ FlowWhile /\ UNCHANGED <<evalVars, cycVars, concVars>>
  \/ FlowFor /\ UNCHANGED <<evalVars, cycVars, concVars>>
  \/ FlowTry /\ UNCHANGED <<evalVars, cycVars, concVars>>
  \/ FlowEval /\ UNCHANGED <<evalVars, cycVars, concVars>>

SpecFlow == InitFlow /\ [][NextFlow]_vars


\* ---------------------------------------------------------------------------
\* Claims on functions and on control flow leaving the chunk
\* ---------------------------------------------------------------------------

FlowKinds == {"Return", "Break", "Continue"}

\* C15: a call of a function defined with fn whose body raises Return ends
\* as an ordinary OK exit, nothing reaching the caller; any other exception
\* of the body (an error, Break, Continue) is rethrown to the caller
\* unchanged.
FnReturn ==
  \A j \in 1..Len(flog) :
    flog[j].call = "fn" =>
      /\ flog[j].in.cause = "Return" => flog[j].out = Nil
      /\ flog[j].in.cause \in Causes \ {"Return"} => flog[j].out = flog[j].in
      /\ flog[j].in = Nil => flog[j].out = Nil

\* A function whose body raised Return has returned normally, and so has the
\* evaluation of the chunk that called it.
FnReturnedOk ==
  /\ fpc = "done"
  /\ form.raise = "Return"
  /\ Len(form.nest) >= 1 /\ form.nest[1] = "fn"
  /\ flog[2] = Handled("fn", Exc("Return", "body"), Nil)
  /\ fres = Nil

\* The body is inside a function (for Return) or inside a loop (for Break and
\* Continue) that the exception reaches.
Enclosed ==
  \E j \in 1..Len(form.nest) :
    /\ form.nest[j] \in (IF form.raise = "Return" THEN {"fn"} ELSE {"while", "for"})
    /\ \A i \in 1..(j - 1) : form.nest[i] \in {"fn", "try"}
    /\ form.raise = "Return" => \A i \in 1..(j - 1) : form.nest[i] # "fn"

Unexpected(kind) == Exc("unexpected " \o kind, "eval")

\* C16: a Return raised outside any function, or a Break / Continue raised
\* outside any loop (passing through function wrappers and try forms or not),
\* surfaces from the top-level evaluation as an exception whose cause is
\* "unexpected <kind>", not as the control-flow value itself.
ControlFlowContained ==
  (fpc = "done" /\ form.raise \in FlowKinds /\ ~Enclosed) =>
    /\ fres = Unexpected(form.raise)
    /\ fres.cause \notin FlowKinds


\* ---------------------------------------------------------------------------
\* Claims on the global namespace
\* ---------------------------------------------------------------------------

\* newTopEvalCtx: the local namespace of the top-level frame is ev.global,
\* the map Global() returns.
Global == ns[TopFrame.local]

\* Frame f evaluates in the top-level scope: the top-level frame and its
\* copies.
InTopScope(f) == frames[f].typ = "top" /\ frames[f].local = TopFrame.local

\* A step of fn, del or use that binds or deletes a name in the top-level
\* scope.
TopScopeOp ==
  \/ \E f \in 1..Len(frames) : InTopScope(f) /\ \E name \in FnNames : FnOp(f, name)
  \/ \E f \in 1..Len(frames) : InTopScope(f) /\ \E key \in AllKeys(f) : DelOp(f, key)
  \/ \E f \in 1..Len(frames) : InTopScope(f) /\ UseCached(f, SpecA)
  \/ /\ stack # <<>>
     /\ InTopScope(Last(stack).ec)
     /\ UseLoadEnd(NoExc)

LoadErrors == {LoadSource(d, e) : d \in {"", "lib"}, e \in LoadEnvs} \ {NoExc}

\* A step in which loadModule throws one of them.
LoadFailed == exc = NoExc /\ exc' \in LoadErrors

\* C18 as stated: when loading fails before the body is executed (invalid
\* UTF-8, no library directory, source neither in the library directory nor
\* bundled, parse error, compile error), the use raises the error, the cache
\* is as it was, and the module name is not bound in the local namespace of
\* the importing frame.
LoadFailureLeavesNameUnbound ==
  [][\A f \in 1..Len(frames), spec \in UseSpecs, env \in LoadEnvs :
       UseLoadFails(f, spec, env) =>
         /\ exc' = LoadSource(libDir, env) /\ exc' # NoExc
         /\ modules' = modules
         /\ UseKey(spec) \notin DOMAIN ns'[frames[f].local]]_vars

\* C18, amended: when loading fails before the body is executed, the use
\* raises the error, the cache is as it was, and the use has bound nothing:
\* every namespace, the local namespace of the importing frame among them,
\* is as it was, and no frame has been made.
LoadFailureBindsNothing ==
  [][LoadFailed => modules' = modules /\ ns' = ns /\ frames' = frames /\ stack' = stack]_vars

\* A use has failed before the body ran, in a library directory, with a
\* module in the cache.
LoadFailureSeen ==
  /\ exc \in LoadErrors \ {"Evaler does not have a lib directory"}
  /\ DOMAIN modules # {}


\* ---------------------------------------------------------------------------
\* Claims on a use that is refused
\* ---------------------------------------------------------------------------

\* The uses of a chunk and of the modules it loads, in a library directory.
NextUse ==
  \/ (\E f \in 1..Len(frames), spec \in UseSpecs : UseRefused(f, spec)) /\ UNCHANGED notEval
  \/ (\E f \in 1..Len(frames), spec \in UseSpecs : UseCached(f, spec)) /\ UNCHANGED notEval
  \/ (\E f \in 1..Len(frames), spec \in UseSpecs, env \in LoadEnvs : UseLoadFails(f, spec, env)) /\ UNCHANGED notEval
  \/ (\E f \in 1..Len(frames), spec \in UseSpecs, env \in LoadEnvs : UseLoadBegin(f, spec, env)) /\ UNCHANGED notEval
  \/ (\E res \in {NoExc} \cup BodyExcs : UseLoadEnd(res)) /\ UNCHANGED notEval
  \/ (Catch) /\ UNCHANGED notEval

SpecUse == InitLib /\ [][NextUse]_vars

\* A step of `use spec` in frame f, however it ends.
UseStep(f, spec) ==
  \/ UseRefused(f, spec)
  \/ UseCached(f, spec)
  \/ \E env \in LoadEnvs : UseLoadFails(f, spec, env)
  \/ \E env \in LoadEnvs : UseLoadBegin(f, spec, env)

\* The module path starts with ./ or ../
Relative(spec) == HasDotPrefix(ModPath(spec)) \/ HasDotDotPrefix(ModPath(spec))

\* The cleaned resolved path of the use still starts with ../
Escapes(f, spec) ==
  HasDotDotPrefix(Clean(IF Relative(spec) THEN Dir(frames[f].name) \o ModPath(spec)
                        ELSE ModPath(spec)))

\* The step has loaded no module, left the cache as it was and bound nothing.
NothingLoaded == modules' = modules /\ ns' = ns /\ frames' = frames /\ stack' = stack

\* C19: a use of a path starting with ./ or ../ in a frame whose source is
\* not a module raises "Relative use not from module", cached or not; a use
\* whose cleaned resolved path still escapes upward raises "Module outside
\* library directory"; in both cases no module is loaded, the cache is as it
\* was and nothing is bound.
UseRefusal ==
  [][\A f \in 1..Len(frames), spec \in UseSpecs :
       /\ (Relative(spec) /\ frames[f].typ # "module" /\ UseStep(f, spec)) =>
            exc' = "Relative use not from module" /\ NothingLoaded
       /\ (~(Relative(spec) /\ frames[f].typ # "module") /\ Escapes(f, spec)
              /\ UseStep(f, spec)) =>
            exc' = "Module outside library directory" /\ NothingLoaded]_vars

\* A relative use outside a module has been refused while the module of that
\* name is in the cache.
RelativeUseRefused ==
  /\ exc = "Relative use not from module"
  /\ <<"a">> \in DOMAIN modules
  /\ Len(stack) = 0


\* ---------------------------------------------------------------------------
\* The top-level evaluation of a chunk: Evaler.evalWithOut
\* ---------------------------------------------------------------------------

\* The chunk and the call: whether the chunk compiles, whether the op
\* compiled is nil, whether the caller passes an output port, whether the
\* chunk defines a function, and how executing it ends.
Chunks ==
  [kind : {"chunk"}, compiles : BOOLEAN, opNil : BOOLEAN, out : BOOLEAN,
   binds : BOOLEAN, raise : Causes \cup {"nil"}]

CompileError == Exc("compile error", "compile")

\* The port a caller passes as out.
OutPort == [f |-> "stdout", ch |-> NoChan, closeF |-> FALSE, closeCh |-> FALSE, by |-> 0]

\* Evaler.global before the call: as NewEvaler left it, or with a function
\* an earlier chunk has defined.
Globals == {EmptyMap, MapSet(EmptyMap, <<"g", FnSuffix>>, FnVal(0))}

InitTop ==
  /\ frames = <<>> /\ ports = <<>>
  /\ ns \in {<<g>> : g \in Globals}
  /\ nsOf = <<NoPath>>
  /\ modules = EmptyMap /\ stack = <<>> /\ exc = NoExc /\ libDir = "lib"
  /\ closedF = [x \in Files |-> 0] /\ closedCh = [x \in Chans |-> 0]
  /\ panicked = FALSE
  /\ CycIdle /\ ConcIdle
  /\ form \in Chunks
  /\ fpc = "start" /\ ferr = Nil /\ flog = <<>> /\ fres = Nil
  /\ fout = [ns |-> ns, modules |-> modules]

\* evalWithOut after compile: return the error, or go on.
AfterCompileMut(ok) == "compiled"
AfterCompile(ok) == IF ok THEN "compiled" ELSE "done"

\* op, err := compile(...); if err != nil { return nil, err }
EvalCompile ==
  /\ fpc = "start"
  /\ flog' = Append(flog, "compile")
  /\ fpc' = AfterCompile(form.compiles)
  /\ fres' = IF form.compiles THEN fres ELSE CompileError
  /\ UNCHANGED <<form, ferr, fout>>
  /\ UNCHANGED evalVars

\* newTopEvalCtx and the substitution of out: the output channel, the task
\* printing what arrives on it, the frame with its three ports.
NewTopEvalCtx ==
  /\ fpc = "compiled"
  /\ flog' = flog \o <<"make chan", "go print", "newTopEvalCtx">>
  /\ ns' = Append(ns, EmptyMap)
  /\ nsOf' = Append(nsOf, NoPath)
  /\ ports' = IF form.out THEN TopPorts \o <<OutPort>> ELSE TopPorts
  /\ frames' = <<IF form.out THEN [TopFrame EXCEPT !.ports = <<1, 4, 3>>] ELSE TopFrame>>
  /\ fpc' = "eval"
  /\ UNCHANGED <<form, ferr, fout, fres>>
  /\ UNCHANGED <<modules, stack, exc, libDir, closedF, closedCh, panicked>>

\* evalCtx.eval up to the return of op(ec): a nil op returns at once; an op
\* runs, defining the function of the chunk and ending normally or raising.
EvalOp ==
  /\ fpc = "eval"
  /\ IF form.opNil
     THEN /\ fpc' = "done"
          /\ UNCHANGED <<flog, ferr, fres>>
          /\ UNCHANGED evalVars
     ELSE /\ fpc' = "close"
          /\ flog' = Append(flog, "op")
          /\ ferr' = IF form.raise = "nil" THEN Nil ELSE Exc(form.raise, "op")
          /\ IF form.binds THEN FnOp(1, "f") ELSE UNCHANGED evalVars
          /\ UNCHANGED fres
  /\ UNCHANGED <<form, fout>>

\* The deferred calls of evalCtx.eval: errutil.Catch(&err), ec.closePorts().
EvalReturn ==
  /\ fpc = "close"
  /\ ClosePorts(1)
  /\ flog' = Append(flog, "closePorts")
  /\ fres' = EvalReturns(ferr)
  /\ fpc' = "done"
  /\ UNCHANGED <<form, ferr, fout>>

NextTop ==
  \/ EvalCompile /\ UNCHANGED <<cycVars, concVars>>
  \/ NewTopEvalCtx /\ UNCHANGED <<cycVars, concVars>>
  \/ EvalOp /\ UNCHANGED <<cycVars, concVars>>
  \/ EvalReturn /\ UNCHANGED <<cycVars, concVars>>

SpecTop == InitTop /\ [][NextTop]_vars

\* C20: when compiling the chunk reports an error, the evaluation returns
\* that error without executing anything: no top-level frame, no output
\* channel and no printing task is made, no port is closed, and the global
\* namespace and the module cache are as they were.
CompileBeforeExecute ==
  ~form.compiles =>
    /\ fpc = "done" => fres = CompileError /\ flog = <<"compile">>
    /\ \A i \in 1..Len(flog) : flog[i] = "compile"
    /\ frames = <<>> /\ ports = <<>>
    /\ \A x \in Files : closedF[x] = 0
    /\ \A x \in Chans : closedCh[x] = 0
    /\ ns = fout.ns /\ modules = fout.modules

\* The evaluation of a chunk that does not compile has returned, with a
\* function of an earlier chunk in the global namespace.
CompileErrorReturned ==
  /\ fpc = "done" /\ ~form.compiles
  /\ fres = CompileError
  /\ ns[1] # EmptyMap


\* ---------------------------------------------------------------------------
\* Claims on the copy of a port list
\* ---------------------------------------------------------------------------

\* C22: for every frame, one whose port list growPorts extended and which
\* holds nil entries included, copy succeeds and yields a frame with a port
\* list of the same length, each entry a new port with the file and channel
\* of the original entry and both close flags false (a nil entry stays nil),
\* the ports of the original frame as they were.
CopyForksEveryPort ==
  [][\A f \in 1..Len(frames) :
       CopyFrame(f) =>
         /\ ~panicked'
         /\ Len(frames') = Len(frames) + 1
         /\ LET old == frames[f].ports
                new == frames'[Len(frames')].ports
            IN /\ Len(new) = Len(old)
               /\ \A i \in 1..Len(old) :
                    IF old[i] = NilPort THEN new[i] = NilPort
                    ELSE /\ new[i] \notin 1..Len(ports)
                         /\ ports'[new[i]].f = ports[old[i]].f
                         /\ ports'[new[i]].ch = ports[old[i]].ch
                         /\ ~ports'[new[i]].closeF /\ ~ports'[new[i]].closeCh
         /\ \A p \in 1..Len(ports) : ports'[p] = ports[p]
         /\ frames'[f] = frames[f]]_vars


\* ---------------------------------------------------------------------------
\* The top-level output: the evaluating task and the printing task
\* ---------------------------------------------------------------------------

\* The capacity of the channel newTopEvalCtx makes.
outChanSize == 32

\* The chunk: the values its operation sends on the output channel, and how
\* it ends after them.
PrintForms ==
  [kind : {"print"}, vals : SeqsUpTo(Vals, MaxSends), raise : {"nil", "Error"}]

\* fout is the content of the channel, flog what has been printed, ferr the
\* number of values sent and whether the channel is closed.
InitPrint ==
  /\ InitEval /\ CycIdle /\ ConcIdle
  /\ form \in PrintForms
  /\ fpc = "eval"
  /\ ferr = [sent |-> 0, closed |-> FALSE, printer |-> "ranging"]
  /\ flog = <<>> /\ fout = <<>> /\ fres = Nil

\* The values sent so far, in the order sent.
Sent == SubSeq(form.vals, 1, ferr.sent)

\* The evaluating task: op(ec) sends the next value on the channel of port 1.
PrintSend ==
  /\ fpc = "eval"
  /\ ferr.sent < Len(form.vals)
  /\ Len(fout) < outChanSize
  /\ fout' = Append(fout, form.vals[ferr.sent + 1])
  /\ ferr' = [ferr EXCEPT !.sent = @ + 1]
  /\ UNCHANGED <<form, fpc, flog, fres>>

\* The evaluating task: op(ec) returns, or throws before it has sent all.
PrintOpEnds ==
  /\ fpc = "eval"
  /\ \/ ferr.sent = Len(form.vals)
     \/ form.raise # "nil"
  /\ fres' = IF form.raise = "nil" THEN Nil ELSE Exc(form.raise, "op")
  /\ fpc' = "close"
  /\ UNCHANGED <<form, ferr, flog, fout>>

\* The evaluating task: the deferred ec.closePorts() closes the channel.
PrintClosePorts ==
  /\ fpc = "close"
  /\ ferr' = [ferr EXCEPT !.closed = TRUE]
  /\ fpc' = "closed"
  /\ UNCHANGED <<form, flog, fout, fres>>

\* The evaluating task: eval returns to the caller of Eval.
PrintReturn ==
  /\ fpc = "closed"
  /\ fpc' = "returned"
  /\ UNCHANGED <<form, ferr, flog, fout, fres>>

\* The printing task: for v := range ch { fmt.Printf(...) }, one value.
PrinterPrints ==
  /\ ferr.printer = "ranging"
  /\ fout # <<>>
  /\ flog' = Append(flog, Head(fout))
  /\ fout' = Tail(fout)
  /\ UNCHANGED <<form, fpc, ferr, fres>>

\* The printing task: the channel is closed and empty, the range loop ends.
PrinterEnds ==
  /\ ferr.printer = "ranging"
  /\ fout = <<>> /\ ferr.closed
  /\ ferr' = [ferr EXCEPT !.printer = "ended"]
  /\ UNCHANGED <<form, fpc, flog, fout, fres>>

NextPrint ==
  \/ PrintSend /\ UNCHANGED <<evalVars, cycVars, concVars>>
  \/ PrintOpEnds /\ UNCHANGED <<evalVars, cycVars, concVars>>
  \/ PrintClosePorts /\ UNCHANGED <<evalVars, cycVars, concVars>>
  \/ PrintReturn /\ UNCHANGED <<evalVars, cycVars, concVars>>
  \/ PrinterPrints /\ UNCHANGED <<evalVars, cycVars, concVars>>
  \/ PrinterEnds /\ UNCHANGED <<evalVars, cycVars, concVars>>

SpecPrint == InitPrint /\ [][NextPrint]_vars

\* C23: in every interleaving of the evaluating task and the printing task,
\* when the top-level Eval returns, normally or with an error, every value
\* sent on the top-level output channel has been printed, in the order sent.
OutputCompleteOnReturn == fpc = "returned" => flog = Sent


\* ---------------------------------------------------------------------------
\* del of a variable: compileDel and the operation it returns
\* ---------------------------------------------------------------------------

VarNames == {"x", "y"}

\* The namespace tag ParseVariable finds in the argument of del.
Tags == {"", "local", "E", "up"}

\* The forms of the chunk: one that declares a name in the current scope and
\* binds it when executed (as fn does), and del of one variable.
Stmts ==
  [op : {"decl"}, tag : {""}, name : VarNames]
    \cup [op : {"del"}, tag : Tags, name : VarNames]

\* The chunk, and the names the scope descriptor has when compilation starts
\* (makeScope: the names bound in the local namespace).
DelForms == [kind : {"del"}, stmts : SeqsUpTo(Stmts, MaxStmts), declared : SUBSET VarNames]

NoErr == "none"

\* compileDel on one argument without indices: the error reported, the scope
\* descriptor afterwards and the operation made (none after an error).
CompileDelMut(scope, tag, name) ==
  IF tag \in {"", "local"}
  THEN IF name \notin scope
       THEN [err |-> "no variable in local scope", scope |-> scope, op |-> "none"]
       ELSE [err |-> NoErr, scope |-> scope, op |-> "delLocal"]
  ELSE IF tag = "E"
  THEN [err |-> NoErr, scope |-> scope, op |-> "delEnv"]
  ELSE [err |-> "only variables in local: or E: can be deleted", scope |-> scope,
        op |-> "none"]

CompileDel(scope, tag, name) ==
  IF tag \in {"", "local"}
  THEN IF name \notin scope
       THEN [err |-> "no variable in local scope", scope |-> scope, op |-> "none"]
       ELSE [err |-> NoErr, scope |-> scope \ {name}, op |-> "delLocal"]
  ELSE IF tag = "E"
  THEN [err |-> NoErr, scope |-> scope, op |-> "delEnv"]
  ELSE [err |-> "only variables in local: or E: can be deleted", scope |-> scope,
        op |-> "none"]

\* The form that declares: the name is set in the scope descriptor.
CompileDecl(scope, name) == [err |-> NoErr, scope |-> scope \cup {name}, op |-> "bind"]

CompileStmt(scope, s) ==
  IF s.op = "decl" THEN CompileDecl(scope, s.name) ELSE CompileDel(scope, s.tag, s.name)

\* newDelLocalVariableOp: delete(f.local, name).
DelLocal(local, name) == MapDel(local, name)

\* fout holds the scope descriptor, the local namespace and the environment;
\* flog the forms compiled and the operations executed, each with what it
\* found and what it left; ferr the errors the compiler has reported.
InitDel ==
  /\ InitEval /\ CycIdle /\ ConcIdle
  /\ form \in DelForms
  /\ fpc = "compile"
  /\ ferr = <<>>
  /\ flog = <<>>
  /\ fout = [scope |-> form.declared,
             local |-> [n \in form.declared |-> "v0"],
             env |-> VarNames]
  /\ fres = Nil

Compiled == Len(SelectSeq(flog, LAMBDA e : e.phase = "compile"))
Executed == Len(SelectSeq(flog, LAMBDA e : e.phase = "exec"))

\* The compiler compiles the next form of the chunk.
DelCompile ==
  /\ fpc = "compile"
  /\ Compiled < Len(form.stmts)
  /\ LET s == form.stmts[Compiled + 1]
         c == CompileStmt(fout.scope, s)
     IN /\ flog' = Append(flog, [phase |-> "compile", stmt |-> s, err |-> c.err,
                                 before |-> fout.scope, after |-> c.scope])
        /\ fout' = [fout EXCEPT !.scope = c.scope]
        /\ ferr' = IF c.err = NoErr THEN ferr ELSE Append(ferr, c.err)
  /\ UNCHANGED <<form, fpc, fres>>

\* Compilation ends: with an error the chunk is not executed.
DelCompiled ==
  /\ fpc = "compile"
  /\ Compiled = Len(form.stmts)
  /\ IF ferr = <<>>
     THEN fpc' = "exec" /\ UNCHANGED fres
     ELSE fpc' = "done" /\ fres' = CompileError
  /\ UNCHANGED <<form, ferr, flog, fout>>

\* The operation of the next form is executed.
DelExec ==
  /\ fpc = "exec"
  /\ Executed < Len(form.stmts)
  /\ LET s == form.stmts[Executed + 1]
         local2 == IF s.op = "decl" THEN MapSet(fout.local, s.name, "v1")
                   ELSE IF s.tag = "E" THEN fout.local
                   ELSE DelLocal(fout.local, s.name)
         env2 == IF s.op = "del" /\ s.tag = "E" THEN fout.env \ {s.name} ELSE fout.env
     IN /\ flog' = Append(flog, [phase |-> "exec", stmt |-> s, err |-> NoErr,
                                 before |-> fout.local, after |-> local2])
        /\ fout' = [fout EXCEPT !.local = local2, !.env = env2]
  /\ UNCHANGED <<form, fpc, ferr, fres>>

\* The chunk has been executed.
DelDone ==
  /\ fpc = "exec"
  /\ Executed = Len(form.stmts)
  /\ fpc' = "done"
  /\ UNCHANGED <<form, ferr, flog, fout, fres>>

NextDel ==
  \/ DelCompile /\ UNCHANGED <<evalVars, cycVars, concVars>>
  \/ DelCompiled /\ UNCHANGED <<evalVars, cycVars, concVars>>
  \/ DelExec /\ UNCHANGED <<evalVars, cycVars, concVars>>
  \/ DelDone /\ UNCHANGED <<evalVars, cycVars, concVars>>

SpecDel == InitDel /\ [][NextDel]_vars

\* del of a plain variable: unqualified or local:
PlainDel(s) == s.op = "del" /\ s.tag \in {"", "local"}

\* C21: del x, unqualified or local:, is a compile error unless x is in the
\* current scope descriptor; otherwise compiling it removes x from the scope
\* descriptor, so that a second del x of the scope with no declaration in
\* between is a compile error, and executing it removes exactly the binding
\* x from the local namespace of the frame, every other binding as it was;
\* a tag other than empty, local or E is a compile error.
DelPlainVariable ==
  /\ \A j \in 1..Len(flog) :
       LET e == flog[j] IN
       /\ (e.phase = "compile" /\ PlainDel(e.stmt)) =>
            /\ e.err # NoErr <=> e.stmt.name \notin e.before
            /\ e.err = NoErr => e.after = e.before \ {e.stmt.name}
       /\ (e.phase = "compile" /\ e.stmt.op = "del" /\ e.stmt.tag \notin {"", "local", "E"}) =>
            e.err # NoErr
       /\ (e.phase = "exec" /\ PlainDel(e.stmt)) =>
            /\ DOMAIN e.after = DOMAIN e.before \ {e.stmt.name}
            /\ \A n \in DOMAIN e.after : e.after[n] = e.before[n]
       /\ e.phase = "exec" => ferr = <<>>
  /\ \A j, k \in 1..Len(flog) :
       (/\ j < k
        /\ flog[j].phase = "compile" /\ flog[k].phase = "compile"
        /\ PlainDel(flog[j].stmt) /\ PlainDel(flog[k].stmt)
        /\ flog[j].stmt.name = flog[k].stmt.name
        /\ \A i \in (j + 1)..(k - 1) :
             ~(flog[i].stmt.op = "decl" /\ flog[i].stmt.name = flog[j].stmt.name))
       => flog[k].err # NoErr
  /\ (fpc = "done" /\ ferr # <<>>) => fres = CompileError

\* A chunk has been executed in which del x removed the binding of x and
\* left the binding of y.
DelExecuted ==
  /\ fpc = "done"
  /\ ferr = <<>>
  /\ \E j \in 1..Len(flog) :
       /\ flog[j].phase = "exec" /\ PlainDel(flog[j].stmt)
       /\ flog[j].stmt.name = "x"
       /\ DOMAIN flog[j].before = {"x", "y"}
       /\ DOMAIN flog[j].after = {"y"}

====
